---------------------------- MODULE Spec2Model ----------------------------
(***************************************************************************)
(* Model of the consensus value store facade (src/src/store/wrapper.rs)    *)
(* and of the engine configuration (src/src/consensus/config.rs,           *)
(* src/src/consensus/config_loader.rs).                                    *)
(*                                                                         *)
(* Rust values are represented as follows:                                 *)
(*   Option<T>    None = << >>, Some(x) = << x >>                          *)
(*   Result<T,E>  [ok |-> TRUE, val |-> v]  /  [ok |-> FALSE, err |-> e]   *)
(*   Vec<T>       a sequence                                               *)
(*   String/&str  a sequence of one-character strings                      *)
(***************************************************************************)
EXTENDS Integers, Sequences, FiniteSets, TLC

VARIABLES
    stores,      \* Store handles: stores[i] is the backend the Arc `inner` of handle i points to
    backend,     \* backend[id]: the tables of backend instance id
    committed,   \* committed[h]: the decided value of the last store at height h that returned Ok (history)
    lastReturn,  \* the most recently completed facade call (history)
    engine,      \* the EngineConfig under construction by the builder
    node,        \* the result of the last NodeConfig::new
    file,        \* the configuration file handed to load_engine_config
    loaded       \* the result of load_engine_config

vars == <<stores, backend, committed, lastReturn, engine, node, file, loaded>>

storeVars == <<stores, backend, committed, lastReturn>>
configVars == <<engine, node>>
loadVars == <<file, loaded>>

(***************************************************************************)
(* Bounds of the model.                                                    *)
(***************************************************************************)
MaxHeight == 2
MaxProposals == 1
MaxHandles == 2

\* ------------------------------------------------------------------ Rust
None == << >>
Some(x) == << x >>
Ok(v) == [ok |-> TRUE, val |-> v]
Err(e) == [ok |-> FALSE, err |-> e]
Unit == "()"

\* ------------------------------------------------------- domain types
Heights == 1..MaxHeight
Rounds == {0, 1}
ValueIds == {"A", "B"}

\* A commit certificate for (height, value_id) paired with its value.
DecidedValues ==
    {[certificate |-> [height |-> h, value_id |-> v], value |-> [id |-> v]] :
        h \in Heights, v \in ValueIds}

\* Proposals are drawn from the lowest and the highest height.
Proposals == [height : {1, MaxHeight}, round : Rounds, value_id : ValueIds]

StorageError == "StorageError"

\* ------------------------------------------------ backend (RethStore)
\* The tables of one backend instance.
EmptyBackend == [decided |-> {}, undecided |-> << >>]

\* The state threaded through one facade call: the tables, the outcome of the
\* last backend call and the number of backend calls made.
\* `raw` is the backend's own outcome, `out` what the caller is handed.
Begin(b) == [b |-> b, out |-> None, raw |-> None, calls |-> 0]

Returned(b, out, c) == [b |-> b, out |-> out, raw |-> out, calls |-> c.calls + 1]

RowsAt(b, height) == {r \in b.decided : r.certificate.height = height}

MaxOf(S) == CHOOSE x \in S : \A y \in S : y <= x

RethStore_max_decided_value_height(c) ==
    LET hs == {r.certificate.height : r \in c.b.decided}
    IN  Returned(c.b, IF hs = {} THEN None ELSE Some(MaxOf(hs)), c)

RethStore_get_decided_value(c, fault, height) ==
    IF fault THEN Returned(c.b, Err(StorageError), c)
    ELSE LET rows == RowsAt(c.b, height)
         IN  Returned(c.b, Ok(IF rows = {} THEN None ELSE Some(CHOOSE r \in rows : TRUE)), c)

\* A keyed put: the row of the certificate's height is replaced.
Put(b, dv) ==
    [b EXCEPT !.decided = (@ \ RowsAt(b, dv.certificate.height)) \cup {dv}]

RethStore_store_decided_value(c, fault, dv) ==
    IF fault THEN Returned(c.b, Err(StorageError), c)
    ELSE Returned(Put(c.b, dv), Ok(Unit), c)

RethStore_get_undecided_proposals(c, fault, height, round) ==
    IF fault THEN Returned(c.b, Err(StorageError), c)
    ELSE LET Match(p) == p.height = height /\ p.round = round
         IN  Returned(c.b, Ok(SelectSeq(c.b.undecided, Match)), c)

Contains(s, x) == \E i \in 1..Len(s) : s[i] = x

RethStore_store_undecided_proposal(c, fault, proposal) ==
    IF fault THEN Returned(c.b, Err(StorageError), c)
    ELSE IF Contains(c.b.undecided, proposal)
         THEN Returned(c.b, Ok(Unit), c)
         ELSE Returned([c.b EXCEPT !.undecided = Append(@, proposal)], Ok(Unit), c)

RethStore_get_undecided_proposal(c, fault, height, round, value_id) ==
    IF fault THEN Returned(c.b, Err(StorageError), c)
    ELSE LET p == [height |-> height, round |-> round, value_id |-> value_id]
         IN  Returned(c.b, Ok(IF Contains(c.b.undecided, p) THEN Some(p) ELSE None), c)

RethStore_verify_tables(c, fault) ==
    IF fault THEN Returned(c.b, Err(StorageError), c) ELSE Returned(c.b, Ok(Unit), c)

\* --------------------------------- StoreOps for RethStore (wrapper.rs)
\* eyre::Report as converted from the backend's error by Into::into.
Report(e) == [report |-> e]

\* Result::map_err(Into::into)
map_err_into(r) == IF r.ok THEN r ELSE Err(Report(r.err))

Mapped(c) == [c EXCEPT !.out = map_err_into(@)]

MaxDropped(c) == [RethStore_max_decided_value_height(c) EXCEPT !.out = None]

StoreOps_max_decided_value_height(c) == RethStore_max_decided_value_height(c)

SwallowingGet(c, fault, height) ==
    LET r == RethStore_get_decided_value(c, fault, height)
    IN  IF r.out.ok THEN r ELSE [r EXCEPT !.out = Ok(None)]

StoreOps_get_decided_value(c, fault, height) ==
    Mapped(RethStore_get_decided_value(c, fault, height))

StoreGuardingDuplicates(c, fault, dv) ==
    IF RowsAt(c.b, dv.certificate.height) # {}
    THEN [c EXCEPT !.out = Err(Report("AlreadyDecided"))]
    ELSE Mapped(RethStore_store_decided_value(c, fault, dv))

StoreOps_store_decided_value(c, fault, dv) ==
    Mapped(RethStore_store_decided_value(c, fault, dv))

StoreOps_get_undecided_proposals(c, fault, height, round) ==
    Mapped(RethStore_get_undecided_proposals(c, fault, height, round))

StoreOps_store_undecided_proposal(c, fault, proposal) ==
    Mapped(RethStore_store_undecided_proposal(c, fault, proposal))

StoreOps_get_undecided_proposal(c, fault, height, round, value_id) ==
    Mapped(RethStore_get_undecided_proposal(c, fault, height, round, value_id))

StoreOps_verify_tables(c, fault) == Mapped(RethStore_verify_tables(c, fault))

\* ------------------------------------------------ Store (wrapper.rs)
\* Each facade method awaits the same method of `inner` and returns its result.
Store_max_decided_value_height(c) == StoreOps_max_decided_value_height(c)

Store_get_decided_value(c, fault, height) == StoreOps_get_decided_value(c, fault, height)

Store_store_decided_value(c, fault, dv) == StoreOps_store_decided_value(c, fault, dv)

Store_get_undecided_proposals(c, fault, height, round) ==
    StoreOps_get_undecided_proposals(c, fault, height, round)

Store_store_undecided_proposal(c, fault, proposal) ==
    StoreOps_store_undecided_proposal(c, fault, proposal)

Store_get_undecided_proposal(c, fault, height, round, value_id) ==
    StoreOps_get_undecided_proposal(c, fault, height, round, value_id)

Store_verify_tables(c, fault) == StoreOps_verify_tables(c, fault)

\* #[derive(Clone)] on Store: the Arc is cloned, the new handle shares the backend.
DeepClone(s, b, h) ==
    [stores |-> Append(s, Len(s) + 1),
     backend |-> [b EXCEPT ![Len(s) + 1] = b[s[h]]]]

Store_clone(s, b, h) == [stores |-> Append(s, s[h]), backend |-> b]


\* ------------------------------------------------------------ strings
\* A string is a sequence of one-character strings.
Digits == <<"0", "1", "2", "3", "4", "5", "6", "7", "8", "9">>

IsDigit(ch) == \E i \in 1..Len(Digits) : Digits[i] = ch

DigitVal(ch) == (CHOOSE i \in 1..Len(Digits) : Digits[i] = ch) - 1

\* str::split(sep): the pieces between the separators, at least one piece.
RECURSIVE Split(_, _)
Split(s, sep) ==
    IF \A i \in 1..Len(s) : s[i] # sep
    THEN << s >>
    ELSE LET i == CHOOSE k \in 1..Len(s) :
                      s[k] = sep /\ \A j \in 1..(k - 1) : s[j] # sep
         IN  << SubSeq(s, 1, i - 1) >> \o Split(SubSeq(s, i + 1, Len(s)), sep)

\* Iterator::last() of a split, which is never empty.
Last(parts) == parts[Len(parts)]

IsSpace(ch) == ch = " "

\* str::trim(): leading and trailing whitespace removed.
RECURSIVE TrimStart(_)
TrimStart(s) == IF s # << >> /\ IsSpace(Head(s)) THEN TrimStart(Tail(s)) ELSE s

RECURSIVE TrimEnd(_)
TrimEnd(s) ==
    IF s # << >> /\ IsSpace(s[Len(s)]) THEN TrimEnd(SubSeq(s, 1, Len(s) - 1)) ELSE s

Trim(s) == TrimEnd(TrimStart(s))

\* The value of a string of decimal digits.
RECURSIVE Decimal(_)
Decimal(s) ==
    IF s = << >> THEN 0 ELSE 10 * Decimal(SubSeq(s, 1, Len(s) - 1)) + DigitVal(s[Len(s)])

AllDigits(s) == s # << >> /\ \A i \in 1..Len(s) : IsDigit(s[i])

\* str::parse::<u16>(): an optional "+", then digits whose value fits 16 bits
\* (the digit strings of the model are shorter than 10 characters).
ParseU16(s) ==
    LET d == IF s # << >> /\ Head(s) = "+" THEN Tail(s) ELSE s
    IN  IF AllDigits(d) /\ Len(d) < 10 /\ Decimal(d) < 65536 THEN Some(Decimal(d)) ELSE None

\* Display of an unsigned integer.
RECURSIVE ToDecimal(_)
ToDecimal(n) ==
    IF n < 10 THEN << Digits[n + 1] >> ELSE ToDecimal(n \div 10) \o << Digits[(n % 10) + 1] >>

\* Ipv4Addr::from_str: four decimal octets, no leading zero, separated by dots.
ParseOctet(s) ==
    IF AllDigits(s) /\ Len(s) <= 3 /\ (Len(s) = 1 \/ Head(s) # "0") /\ Decimal(s) < 256
    THEN Some(Decimal(s))
    ELSE None

ParseIpv4(s) ==
    LET parts == Split(s, ".")
    IN  IF Len(parts) = 4 /\ \A i \in 1..4 : ParseOctet(parts[i]) # None
        THEN Some([i \in 1..4 |-> ParseOctet(parts[i])[1]])
        ELSE None

\* Display of an Ipv4Addr.
Ipv4ToString(ip) ==
    ToDecimal(ip[1]) \o <<".">> \o ToDecimal(ip[2]) \o <<".">> \o ToDecimal(ip[3])
        \o <<".">> \o ToDecimal(ip[4])

\* SocketAddr::from_str for "a.b.c.d:port".
ParseSocketAddr(s) ==
    LET parts == Split(s, ":")
    IN  IF Len(parts) = 2 /\ ParseIpv4(parts[1]) # None /\ ParseU16(parts[2]) # None
        THEN Ok([ip |-> ParseIpv4(parts[1])[1], port |-> ParseU16(parts[2])[1]])
        ELSE Err("AddrParseError")

\* ---------------------------------------------------------- multiaddr
S_ip4 == <<"i", "p", "4">>
S_tcp == <<"t", "c", "p">>
S_ws == <<"w", "s">>

\* Multiaddr::from_str: the text must start with "/"; then protocol names, each
\* followed by its argument: ip4 takes an address, tcp a 16-bit port, ws nothing.
RECURSIVE ParseProtocols(_)
ParseProtocols(parts) ==
    IF parts = << >> THEN Ok(<< >>)
    ELSE IF Head(parts) = S_ip4
    THEN IF Len(parts) < 2 \/ ParseIpv4(parts[2]) = None THEN Err("InvalidProtocolString")
         ELSE LET rest == ParseProtocols(SubSeq(parts, 3, Len(parts)))
              IN  IF rest.ok
                  THEN Ok(<< [proto |-> "ip4", arg |-> ParseIpv4(parts[2])[1]] >> \o rest.val)
                  ELSE rest
    ELSE IF Head(parts) = S_tcp
    THEN IF Len(parts) < 2 \/ ParseU16(parts[2]) = None THEN Err("InvalidProtocolString")
         ELSE LET rest == ParseProtocols(SubSeq(parts, 3, Len(parts)))
              IN  IF rest.ok
                  THEN Ok(<< [proto |-> "tcp", arg |-> << ParseU16(parts[2])[1] >>] >> \o rest.val)
                  ELSE rest
    ELSE IF Head(parts) = S_ws
    THEN LET rest == ParseProtocols(Tail(parts))
         IN  IF rest.ok THEN Ok(<< [proto |-> "ws", arg |-> << >>] >> \o rest.val) ELSE rest
    ELSE Err("UnknownProtocolString")

Multiaddr_from_str(s) ==
    LET parts == Split(s, "/")
    IN  IF Head(parts) # << >> THEN Err("InvalidMultiaddr") ELSE ParseProtocols(Tail(parts))

\* ------------------------------------------------- config (config.rs)
S_localhost == <<"1", "2", "7", ".", "0", ".", "0", ".", "1">>
S_any == <<"0", ".", "0", ".", "0", ".", "0">>
S_26656 == <<"2", "6", "6", "5", "6">>
S_26657 == <<"2", "6", "6", "5", "7">>
S_9000 == <<"9", "0", "0", "0">>
S_9100 == <<"9", "1", "0", "0">>

\* "/ip4/127.0.0.1/tcp/26656"
DefaultListenAddr ==
    <<"/">> \o S_ip4 \o <<"/">> \o S_localhost \o <<"/">> \o S_tcp \o <<"/">> \o S_26656

\* Result::unwrap of a value the code takes to be Ok.
Unwrap(r) == r.val

\* peers.into_iter().filter_map(|p| Multiaddr::from_str(&p).ok()).collect()
RECURSIVE FilterMapParse(_)
FilterMapParse(peers) ==
    IF peers = << >> THEN << >>
    ELSE LET r == Multiaddr_from_str(Head(peers))
         IN  (IF r.ok THEN << r.val >> ELSE << >>) \o FilterMapParse(Tail(peers))

NodeConfigWith(moniker, listen, persistent_peers) ==
    [moniker |-> moniker,
     consensus |->
        [value_payload |-> "ProposalAndParts",
         timeouts |-> "TimeoutConfig::default",
         p2p |-> [protocol |-> "PubSubProtocol::default",
                  listen_addr |-> listen,
                  persistent_peers |-> persistent_peers,
                  discovery |-> [enabled |-> FALSE, rest |-> "DiscoveryConfig::default"],
                  rest |-> "P2pConfig::default"]],
     metrics |-> [enabled |-> TRUE,
                  listen_addr |-> Unwrap(ParseSocketAddr(S_localhost \o <<":">> \o S_9000))],
     runtime |-> "RuntimeConfig::default",
     logging |-> "LoggingConfig::default",
     value_sync |-> "ValueSyncConfig::default"]

NodeConfigUnwrapOrDefault(moniker, listen_addr, peers) ==
    LET parsed == Multiaddr_from_str(listen_addr)
    IN  NodeConfigWith(moniker, IF parsed.ok THEN parsed.val ELSE << >>,
                       FilterMapParse(peers))

NodeConfig_new(moniker, listen_addr, peers) ==
    LET parsed == Multiaddr_from_str(listen_addr)
    IN  NodeConfigWith(moniker,
                       IF parsed.ok THEN parsed.val
                       ELSE Unwrap(Multiaddr_from_str(DefaultListenAddr)),
                       FilterMapParse(peers))

WalConfig_default ==
    [path |-> "./wal", max_file_size |-> 100 * 1024 * 1024, retain_all |-> FALSE]

NetworkConfig_new(chain_id, listen_addr) ==
    [chain_id |-> chain_id, listen_addr |-> listen_addr, peers |-> << >>,
     discovery_enabled |-> FALSE]

NetworkConfig_with_peers(self, peers) == [self EXCEPT !.peers = peers]

EngineConfig_new(chain_id, moniker, listen_addr) ==
    LET listen_str == <<"/">> \o S_ip4 \o <<"/">> \o Ipv4ToString(listen_addr.ip)
                        \o <<"/">> \o S_tcp \o <<"/">> \o ToDecimal(listen_addr.port)
    IN  [node |-> NodeConfig_new(moniker, listen_str, << >>),
         wal |-> WalConfig_default,
         network |-> NetworkConfig_new(chain_id, listen_addr),
         start_height |-> None]

EngineConfig_with_wal_dir(self, path) == [self EXCEPT !.wal.path = path]

EngineConfig_with_start_height(self, height) == [self EXCEPT !.start_height = Some(height)]

WithPeersAppending(self, peers) ==
    [self EXCEPT !.network.peers = @ \o peers,
                 !.node.consensus.p2p.persistent_peers = @ \o FilterMapParse(peers)]

EngineConfig_with_peers(self, peers) ==
    [self EXCEPT !.network.peers = peers,
                 !.node.consensus.p2p.persistent_peers = FilterMapParse(peers)]

\* ------------------------------------------ loader (config_loader.rs)
\* A TOML value: a string, or a value of another type.
TomlStr(s) == [is_str |-> TRUE, str |-> s]
TomlOther == [is_str |-> FALSE, str |-> << >>]

\* toml::Value::as_str of an optional value (Option::and_then).
AsStr(v) == IF v # None /\ v[1].is_str THEN Some(v[1].str) ELSE None

UnwrapOr(o, d) == IF o = None THEN d ELSE o[1]

RECURSIVE MapTrim(_)
MapTrim(parts) ==
    IF parts = << >> THEN << >> ELSE << Trim(Head(parts)) >> \o MapTrim(Tail(parts))

UntrimmedPeers(peers_str) ==
    IF peers_str = << >> THEN << >> ELSE Split(peers_str, ",")

\* lines 51-55: the peer list of the persistent_peers string.
ParsePeers(peers_str) ==
    IF peers_str = << >> THEN << >> ELSE MapTrim(Split(peers_str, ","))

\* lines 58-64
MetricsPort(f) ==
    LET addr == AsStr(f.metrics)
    IN  UnwrapOr(IF addr = None THEN None ELSE ParseU16(Last(Split(addr[1], ":"))), 9000)

\* lines 67-71
ConsensusPort(listen_addr) == UnwrapOr(ParseU16(Last(Split(listen_addr, "/"))), 26656)

load_engine_config(f, chain_id, node_id) ==
    IF f.io # "ok" THEN Err(f.io)
    ELSE IF ~f.consensus THEN Err("Missing 'consensus' section in config")
    ELSE IF ~f.p2p THEN Err("Missing 'consensus.p2p' section in config")
    ELSE IF AsStr(f.listen_addr) = None THEN Err("Missing 'consensus.p2p.listen_addr'")
    ELSE
      LET listen_addr == AsStr(f.listen_addr)[1]
          peers == ParsePeers(UnwrapOr(AsStr(f.persistent_peers), << >>))
          socket_addr == ParseSocketAddr(S_localhost \o <<":">> \o ToDecimal(ConsensusPort(listen_addr)))
          metrics_addr == ParseSocketAddr(S_any \o <<":">> \o ToDecimal(MetricsPort(f)))
      IN  IF ~socket_addr.ok THEN Err(socket_addr.err)
          ELSE IF ~metrics_addr.ok THEN Err(metrics_addr.err)
          ELSE
            LET node_config == [NodeConfig_new(node_id, listen_addr, peers)
                                  EXCEPT !.metrics.listen_addr = metrics_addr.val]
                engine_config == EngineConfig_new(chain_id, node_id, socket_addr.val)
            IN  Ok([engine_config EXCEPT
                        !.node = node_config,
                        !.network = NetworkConfig_with_peers(@, peers)])

\* ------------------------------------------------------ config inputs
MaxComps == 3
MaxPeers == 2

\* The components a listen address is composed of: "ip4/127.0.0.1", "tcp/26657",
\* "ws" and "x", which is no protocol.
Components ==
    {S_ip4 \o <<"/">> \o S_localhost, S_tcp \o <<"/">> \o S_26657, S_ws, <<"x">>}

\* "" and every "/c1/../cn" of at most n components.
RECURSIVE ListenStrings(_)
ListenStrings(n) ==
    IF n = 0 THEN {<< >>}
    ELSE ListenStrings(n - 1)
            \cup {p \o <<"/">> \o c : p \in ListenStrings(n - 1), c \in Components}

\* "/ip4/127.0.0.1/tcp/26657"
ValidPeer ==
    <<"/">> \o S_ip4 \o <<"/">> \o S_localhost \o <<"/">> \o S_tcp \o <<"/">> \o S_26657

\* Peer strings: "a", " b " and a well-formed address.
PeerEntries == {<<"a">>, <<" ", "b", " ">>, ValidPeer}

RECURSIVE PeerLists(_)
PeerLists(n) ==
    IF n = 0 THEN {<< >>}
    ELSE PeerLists(n - 1) \cup {Append(l, e) : l \in PeerLists(n - 1), e \in PeerEntries}

RECURSIVE Join(_, _)
Join(list, sep) ==
    IF list = << >> THEN << >>
    ELSE IF Len(list) = 1 THEN list[1]
    ELSE list[1] \o << sep >> \o Join(Tail(list), sep)

ListenAddrs == ListenStrings(MaxComps)

PeerVectors == PeerLists(MaxPeers)

PeerStrings == {Join(l, ",") : l \in PeerVectors}

SocketAddrs == {[ip |-> <<127, 0, 0, 1>>, port |-> 26656], [ip |-> <<0, 0, 0, 0>>, port |-> 8080]}

WalDirs == {"./wal2", "/var/lib/wal"}

OptionalStrings(S) == {None, Some(TomlOther)} \cup {Some(TomlStr(x)) : x \in S}

Document(listen, peers, metrics) ==
    [io |-> "ok", consensus |-> TRUE, p2p |-> TRUE, listen_addr |-> listen,
     persistent_peers |-> peers, metrics |-> metrics]

\* The files: unreadable, not TOML, without a consensus or consensus.p2p section,
\* and every document of the fields above.
Files ==
    {[Document(None, None, None) EXCEPT !.io = "unreadable"],
     [Document(None, None, None) EXCEPT !.io = "malformed"],
     [Document(None, None, None) EXCEPT !.consensus = FALSE, !.p2p = FALSE],
     [Document(None, None, None) EXCEPT !.p2p = FALSE]}
    \cup {Document(l, p, m) :
            l \in OptionalStrings(ListenAddrs),
            p \in OptionalStrings(PeerStrings),
            m \in {None, Some(TomlStr(S_localhost \o <<":">> \o S_9100)), Some(TomlStr(<<"x">>))}}

\* ------------------------------------------------------ store actions
Handles == 1..Len(stores)

NoReturn == [op |-> "none", h |-> 0, key |-> None, fault |-> FALSE, out |-> None,
             raw |-> None, calls |-> 0, repeat |-> FALSE, expect |-> None]

\* The facade call `op` made through handle h has returned the call state c.
\* key, fault, repeat and expect are history: the height the call was about, whether
\* the backend failed, whether a store repeated the pair last committed at its
\* height, and what was committed at the height when the call was made.
Completed(op, h, key, fault, c, repeat, expect) ==
    /\ backend' = [backend EXCEPT ![stores[h]] = c.b]
    /\ lastReturn' = [op |-> op, h |-> h, key |-> key, fault |-> fault, out |-> c.out,
                      raw |-> c.raw, calls |-> c.calls, repeat |-> repeat,
                      expect |-> expect]
    /\ UNCHANGED <<configVars, loadVars>>

InitStore ==
    /\ stores = << 1 >>
    /\ backend = [i \in 1..MaxHandles |-> EmptyBackend]
    /\ committed = [h \in Heights |-> None]
    /\ lastReturn = NoReturn

Clone ==
    \E h \in Handles :
        /\ Len(stores) < MaxHandles
        /\ LET r == Store_clone(stores, backend, h)
           IN  stores' = r.stores /\ backend' = r.backend
        /\ UNCHANGED <<committed, lastReturn, configVars, loadVars>>

MaxDecidedValueHeight ==
    \E h \in Handles :
        /\ Completed("max_decided_value_height", h, None, FALSE,
                     Store_max_decided_value_height(Begin(backend[stores[h]])), FALSE, None)
        /\ UNCHANGED <<stores, committed>>

GetDecidedValue ==
    \E h \in Handles, fault \in BOOLEAN, height \in Heights :
        /\ Completed("get_decided_value", h, Some(height), fault,
                     Store_get_decided_value(Begin(backend[stores[h]]), fault, height),
                     FALSE, committed[height])
        /\ UNCHANGED <<stores, committed>>

StoreDecidedValue ==
    \E h \in Handles, fault \in BOOLEAN, dv \in DecidedValues :
        LET c == Store_store_decided_value(Begin(backend[stores[h]]), fault, dv)
            height == dv.certificate.height
            repeat == committed[height] # None /\ committed[height][1].dv = dv
        IN  /\ Completed("store_decided_value", h, Some(height), fault, c, repeat,
                         committed[height])
            /\ committed' = IF c.out.ok
                            THEN [committed EXCEPT ![height] = Some([dv |-> dv, by |-> h])]
                            ELSE committed
            /\ UNCHANGED stores

GetUndecidedProposals ==
    \E h \in Handles, fault \in BOOLEAN, height \in Heights, round \in Rounds :
        /\ Completed("get_undecided_proposals", h, None, fault,
                     Store_get_undecided_proposals(Begin(backend[stores[h]]), fault, height, round),
                     FALSE, None)
        /\ UNCHANGED <<stores, committed>>

StoreUndecidedProposal ==
    \E h \in Handles, fault \in BOOLEAN, proposal \in Proposals :
        /\ \/ Contains(backend[stores[h]].undecided, proposal)
           \/ Len(backend[stores[h]].undecided) < MaxProposals
        /\ Completed("store_undecided_proposal", h, None, fault,
                     Store_store_undecided_proposal(Begin(backend[stores[h]]), fault, proposal),
                     FALSE, None)
        /\ UNCHANGED <<stores, committed>>

GetUndecidedProposal ==
    \E h \in Handles, fault \in BOOLEAN, p \in Proposals :
        /\ Completed("get_undecided_proposal", h, None, fault,
                     Store_get_undecided_proposal(Begin(backend[stores[h]]), fault,
                                                  p.height, p.round, p.value_id),
                     FALSE, None)
        /\ UNCHANGED <<stores, committed>>

VerifyTables ==
    \E h \in Handles, fault \in BOOLEAN :
        /\ Completed("verify_tables", h, None, fault,
                     Store_verify_tables(Begin(backend[stores[h]]), fault), FALSE, None)
        /\ UNCHANGED <<stores, committed>>

InitConfigIdle == engine = None /\ node = None
InitLoadIdle == file = None /\ loaded = None

Init == InitStore /\ InitConfigIdle /\ InitLoadIdle

\* The seven operations of the facade, through the handle Store::new returned.
Next ==
    \/ MaxDecidedValueHeight
    \/ GetDecidedValue
    \/ StoreDecidedValue
    \/ GetUndecidedProposals
    \/ StoreUndecidedProposal
    \/ GetUndecidedProposal
    \/ VerifyTables

Spec == Init /\ [][Next]_vars

\* The decided-value operations through any number of duplicates of the handle.
NextShared ==
    \/ Clone
    \/ MaxDecidedValueHeight
    \/ GetDecidedValue
    \/ StoreDecidedValue

SpecShared == Init /\ [][NextShared]_vars

\* ----------------------------------------------------- config actions
\* engine holds, beside the configuration, the call that produced it (history):
\* its name, its argument and whether the configuration it was applied to had peers.
Built(cfg, op, arg, had_peers) ==
    Some([cfg |-> cfg, op |-> op, arg |-> arg, had_peers |-> had_peers])

NoArg == [path |-> "", height |-> 0, peers |-> << >>]

NewNode ==
    /\ node = None /\ engine = None
    /\ \E listen_addr \in ListenAddrs, peers \in PeerVectors :
        /\ node' = Some([listen_addr |-> listen_addr, peers |-> peers,
                         cfg |-> NodeConfig_new("node-0", listen_addr, peers)])
        /\ UNCHANGED <<engine, storeVars, loadVars>>

EngineNew ==
    /\ node = None /\ engine = None
    /\ \E listen_addr \in SocketAddrs :
        /\ engine' = Built(EngineConfig_new("chain", "node-0", listen_addr), "new",
                           NoArg, FALSE)
        /\ UNCHANGED <<node, storeVars, loadVars>>

WithWalDir ==
    /\ engine # None
    /\ \E path \in WalDirs :
        /\ engine' = Built(EngineConfig_with_wal_dir(engine[1].cfg, path), "with_wal_dir",
                           [NoArg EXCEPT !.path = path], engine[1].cfg.network.peers # << >>)
        /\ UNCHANGED <<node, storeVars, loadVars>>

WithStartHeight ==
    /\ engine # None
    /\ \E height \in Heights :
        /\ engine' = Built(EngineConfig_with_start_height(engine[1].cfg, height),
                           "with_start_height", [NoArg EXCEPT !.height = height],
                           engine[1].cfg.network.peers # << >>)
        /\ UNCHANGED <<node, storeVars, loadVars>>

WithPeers ==
    /\ engine # None
    /\ \E peers \in PeerVectors :
        /\ engine' = Built(EngineConfig_with_peers(engine[1].cfg, peers), "with_peers",
                           [NoArg EXCEPT !.peers = peers], engine[1].cfg.network.peers # << >>)
        /\ UNCHANGED <<node, storeVars, loadVars>>

NextConfig ==
    \/ NewNode
    \/ EngineNew
    \/ WithWalDir
    \/ WithStartHeight
    \/ WithPeers

SpecConfig == Init /\ [][NextConfig]_vars

\* ------------------------------------------------------- load actions
InitLoad ==
    /\ InitStore
    /\ InitConfigIdle
    /\ file \in {Some(f) : f \in Files}
    /\ loaded = None

Load ==
    /\ loaded = None
    /\ loaded' = Some(load_engine_config(file[1], "chain", "node-0"))
    /\ UNCHANGED <<file, storeVars, configVars>>

NextLoad == Load

SpecLoad == InitLoad /\ [][NextLoad]_vars

\* ------------------------------------------------------- store claims
Fallible == {"get_decided_value", "store_decided_value", "get_undecided_proposals",
             "store_undecided_proposal", "get_undecided_proposal", "verify_tables"}

\* C1: every facade operation returns the backend's outcome undistorted: a backend
\* failure comes back as a failure carrying the backend's error, a backend success
\* value comes back unchanged, and exactly one backend call is made per facade call.
C1_OutcomeForwarded ==
    /\ lastReturn.op # "none" => lastReturn.calls = 1
    /\ lastReturn.op = "max_decided_value_height" => lastReturn.out = lastReturn.raw
    /\ lastReturn.op \in Fallible =>
          IF lastReturn.raw.ok
          THEN lastReturn.out = lastReturn.raw
          ELSE ~lastReturn.out.ok /\ lastReturn.out.err = Report(lastReturn.raw.err)

C1_Witness ==
    /\ lastReturn.op = "get_decided_value"
    /\ ~lastReturn.raw.ok
    /\ \E h \in Heights : committed[h] # None

ReadDecided(b, height) == Store_get_decided_value(Begin(b), FALSE, height).out

ReadMax(b) == Store_max_decided_value_height(Begin(b)).out

\* C2: every backend holds at most one decided value per height, and a store that
\* repeats the (certificate, value) pair last committed at its height returns no
\* error (unless the backend itself fails) and leaves every get_decided_value and
\* max_decided_value_height result as it was.
C2_AtMostOneAndIdempotent ==
    [][ /\ \A i \in DOMAIN backend, height \in Heights :
              Cardinality(RowsAt(backend'[i], height)) <= 1
        /\ (lastReturn'.op = "store_decided_value" /\ lastReturn'.repeat) =>
              /\ ~lastReturn'.fault => lastReturn'.out.ok
              /\ \A h \in Handles :
                    /\ ReadMax(backend'[stores[h]]) = ReadMax(backend[stores[h]])
                    /\ \A height \in Heights :
                          ReadDecided(backend'[stores[h]], height)
                              = ReadDecided(backend[stores[h]], height) ]_vars

C2_Witness ==
    /\ lastReturn.op = "store_decided_value"
    /\ lastReturn.repeat
    /\ lastReturn.out.ok

\* C8: all duplicates of the handle share one backend instance: what was last
\* committed at a height through any duplicate is what a read through every
\* duplicate returns, and what every completed read did return.
C8_DuplicatesShareBackend ==
    /\ \A h \in Handles : stores[h] = stores[1]
    /\ \A h \in Handles, height \in Heights :
          ReadDecided(backend[stores[h]], height)
              = Ok(IF committed[height] = None THEN None ELSE Some(committed[height][1].dv))
    /\ (lastReturn.op = "get_decided_value" /\ lastReturn.out.ok) =>
          lastReturn.out.val
              = (IF lastReturn.expect = None THEN None ELSE Some(lastReturn.expect[1].dv))

C8_Witness ==
    /\ lastReturn.op = "get_decided_value"
    /\ lastReturn.out.ok
    /\ lastReturn.out.val # None
    /\ lastReturn.expect # None
    /\ lastReturn.expect[1].by # lastReturn.h

CommittedHeights == {h \in Heights : committed[h] # None}

Greatest(S) == IF S = {} THEN None ELSE Some(MaxOf(S))

AtLeast(a, b) == b = None \/ (a # None /\ a[1] >= b[1])

\* C9: max_decided_value_height returns none while no store has completed, and
\* otherwise the greatest height of the stores that completed successfully, in
\* whatever order they were made; its result never decreases.
C9_MaxHeight ==
    [][ /\ lastReturn'.op = "max_decided_value_height" =>
              lastReturn'.out = Greatest({h \in Heights : committed'[h] # None})
        /\ \A h \in Handles :
              AtLeast(ReadMax(backend'[stores[h]]), ReadMax(backend[stores[h]])) ]_vars

C9_Witness ==
    /\ lastReturn.op = "max_decided_value_height"
    /\ lastReturn.out = Some(MaxHeight)
    /\ CommittedHeights = Heights
    /\ committed[1][1].by # committed[MaxHeight][1].by

\* ------------------------------------------------------ config claims
PeersConsistent(cfg) ==
    LET strings == cfg.network.peers
        parsed == cfg.node.consensus.p2p.persistent_peers
    IN  /\ Len(strings) = Len(parsed)
        /\ \A i \in 1..Len(strings) :
              i <= Len(parsed) => Multiaddr_from_str(strings[i]) = Ok(parsed[i])

\* C3: after with_peers, and in the configuration load_engine_config returns, the
\* string peer list and the parsed peer list have the same number of entries and
\* the i-th parsed address is the address the i-th string denotes.
C3_PeerListsConsistent ==
    /\ engine # None => PeersConsistent(engine[1].cfg)
    /\ (loaded # None /\ loaded[1].ok) => PeersConsistent(loaded[1].val)

DefaultMultiaddr ==
    << [proto |-> "ip4", arg |-> <<127, 0, 0, 1>>], [proto |-> "tcp", arg |-> <<26656>>] >>

\* C7: NodeConfig::new yields a configuration for every input: its listen address
\* is the parsed input when the input parses as a multi-address and
\* /ip4/127.0.0.1/tcp/26656 when it does not; discovery is disabled and metrics are
\* enabled on 127.0.0.1:9000.
C7_NodeConfigNew ==
    node # None =>
        LET cfg == node[1].cfg
            parsed == Multiaddr_from_str(node[1].listen_addr)
        IN  /\ cfg.consensus.p2p.listen_addr
                  = (IF parsed.ok THEN parsed.val ELSE DefaultMultiaddr)
            /\ cfg.consensus.p2p.discovery.enabled = FALSE
            /\ cfg.metrics = [enabled |-> TRUE,
                              listen_addr |-> [ip |-> <<127, 0, 0, 1>>, port |-> 9000]]

C7_Witness ==
    /\ node # None
    /\ ~Multiaddr_from_str(node[1].listen_addr).ok
    /\ node[1].cfg.consensus.p2p.listen_addr = DefaultMultiaddr
    /\ node[1].peers # << >>

ListenString == AsStr(file[1].listen_addr)

WellFormedSections == file[1].io = "ok" /\ file[1].consensus /\ file[1].p2p

\* C4: load_engine_config returns an error whenever consensus.p2p.listen_addr is
\* missing or does not parse as a multi-address.
C4_BadListenAddrFails ==
    (loaded # None /\ (ListenString = None \/ ~Multiaddr_from_str(ListenString[1]).ok))
        => ~loaded[1].ok

TcpPorts(addr) == {addr[i].arg[1] : i \in {j \in 1..Len(addr) : addr[j].proto = "tcp"}}

\* C5: when consensus.p2p.listen_addr is a multi-address with a TCP port p, the
\* load succeeds and network.listen_addr has port p, the port of the node's P2P
\* listen address.
C5_DerivedPort ==
    (loaded # None /\ WellFormedSections /\ ListenString # None
        /\ Multiaddr_from_str(ListenString[1]).ok) =>
        \A p \in TcpPorts(Multiaddr_from_str(ListenString[1]).val) :
            /\ loaded[1].ok
            /\ loaded[1].val.network.listen_addr.port = p
            /\ p \in TcpPorts(loaded[1].val.node.consensus.p2p.listen_addr)

\* The entries of a comma-separated string, by the positions of its commas: entry k
\* lies between the (k-1)-th and the k-th comma, and is cut to its first and last
\* character that is no space.
Commas(s) == {i \in 1..Len(s) : s[i] = ","}

NthComma(s, k) == CHOOSE i \in Commas(s) : Cardinality({j \in Commas(s) : j < i}) = k - 1

Entry(s, k) ==
    LET first == IF k = 1 THEN 1 ELSE NthComma(s, k - 1) + 1
        last == IF k = Cardinality(Commas(s)) + 1 THEN Len(s) ELSE NthComma(s, k) - 1
        solid == {i \in first..last : s[i] # " "}
    IN  IF solid = {} THEN << >>
        ELSE SubSeq(s, CHOOSE i \in solid : \A j \in solid : i <= j,
                       CHOOSE i \in solid : \A j \in solid : j <= i)

ExpectedPeers(field) ==
    LET s == AsStr(field)
    IN  IF s = None \/ s = Some(<< >>) THEN << >>
        ELSE [k \in 1..(Cardinality(Commas(s[1])) + 1) |-> Entry(s[1], k)]

\* C6: network.peers of a loaded configuration is the sequence of the
\* comma-separated entries of persistent_peers, trimmed and in file order, and is
\* empty when the field is absent or empty; a file that has its sections and its
\* listen address loads whatever its peers are.
C6_PeersTrimmedInOrder ==
    loaded # None =>
        /\ loaded[1].ok =>
              loaded[1].val.network.peers = ExpectedPeers(file[1].persistent_peers)
        /\ (WellFormedSections /\ ListenString # None) => loaded[1].ok

C6_Witness ==
    /\ loaded # None
    /\ loaded[1].ok
    /\ loaded[1].val.network.peers = << <<"a">>, <<"b">> >>

=============================================================================
